---- MODULE Spec2Model ----
(***************************************************************************)
(* A model of improved_plex_mapper.py: the path mapper (PlexPathMapper),   *)
(* the reconciliation pass (PlexDatabaseManager.get_recent_media), the     *)
(* snapshot export/import (CSVHandler) and the writer to a database copy   *)
(* (PlexDatabaseManager.update_database_copy).                             *)
(*                                                                         *)
(* Representation.  A Python str is a sequence of one-character strings;   *)
(* None, where a str is expected, is the value None below.  An             *)
(* Optional[datetime] or Optional[int] is a sequence of length 0 (None) or *)
(* 1.  A datetime is an integer count of ticks (TicksPerSec to a second)   *)
(* since the epoch, so that int(dt.timestamp()) is a real truncation.      *)
(***************************************************************************)
EXTENDS Integers, Sequences, FiniteSets, TLC

VARIABLES
    mapper,   \* the PlexPathMapper instance: [constructed, path_mappings]
    fs,       \* the media files: path -> [is_file, stat_ok, st_mtime]
    db,       \* the source catalog store: [items, parts]
    dup,      \* the store at the other database path: <<>> (no file) or <<store>>
    csv,      \* the snapshot file: <<>> (no file) or <<rows>>
    call,     \* the last operation called and its arguments
    ret       \* what that operation returned

vars == <<mapper, fs, db, dup, csv, call, ret>>

(***************************************************************************)
(* Bounds of the model.                                                    *)
(***************************************************************************)
MaxPathLen == 3
MaxRules == 2
SecPerYear == 2      \* the model's calendar: seconds in a year
TicksPerSec == 2     \* resolution of a datetime: ticks in a second
MaxTimeT == 100000   \* the platform's time_t range, in seconds

(***************************************************************************)
(* Constants of the program.                                               *)
(***************************************************************************)
EpochYear == 1970
CurrentYear == 2026  \* datetime.now().year

(***************************************************************************)
(* Python str operations used by the program.                              *)
(***************************************************************************)
None == <<"None">>

Whitespace == {" "}

Strs(S, n) == UNION {[1..k -> S] : k \in 0..n}

RECURSIVE lstrip(_)
lstrip(s) == IF s # <<>> /\ Head(s) \in Whitespace THEN lstrip(Tail(s)) ELSE s

RECURSIVE rstrip(_)
rstrip(s) ==
    IF s # <<>> /\ s[Len(s)] \in Whitespace
    THEN rstrip(SubSeq(s, 1, Len(s) - 1))
    ELSE s

strip(s) == rstrip(lstrip(s))

startswith(s, prefix) ==
    /\ Len(prefix) <= Len(s)
    /\ SubSeq(s, 1, Len(prefix)) = prefix

\* str.find, 1-based; 0 when sub does not occur in s
find(s, sub) ==
    LET hits == {i \in 1..(Len(s) - Len(sub) + 1) :
                    SubSeq(s, i, i + Len(sub) - 1) = sub}
    IN  IF hits = {} THEN 0 ELSE CHOOSE i \in hits : \A j \in hits : i <= j

\* s.replace(old, new, 1)
replace_once(s, old, new) ==
    LET i == find(s, old)
    IN  IF i = 0 THEN s
        ELSE SubSeq(s, 1, i - 1) \o new \o SubSeq(s, i + Len(old), Len(s))

RECURSIVE replace_all_from(_, _, _, _)
replace_all_from(s, old, new, done) ==
    LET i == find(s, old)
    IN  IF i = 0 \/ old = <<>> THEN done \o s
        ELSE replace_all_from(SubSeq(s, i + Len(old), Len(s)), old, new,
                              done \o SubSeq(s, 1, i - 1) \o new)

(***************************************************************************)
(* PlexPathMapper.map_path                                                 *)
(***************************************************************************)
\* mutant: every occurrence of the old prefix is replaced
RECURSIVE apply_mappings_replace_all(_, _)
apply_mappings_replace_all(path_mappings, plex_path) ==
    IF path_mappings = <<>> THEN plex_path
    ELSE LET old_prefix == Head(path_mappings)[1]
             new_prefix == Head(path_mappings)[2]
         IN  IF startswith(plex_path, old_prefix)
             THEN IF old_prefix = <<>> THEN new_prefix \o plex_path
                  ELSE replace_all_from(plex_path, old_prefix, new_prefix, <<>>)
             ELSE apply_mappings_replace_all(Tail(path_mappings), plex_path)

RECURSIVE apply_mappings(_, _)
apply_mappings(path_mappings, plex_path) ==
    IF path_mappings = <<>> THEN plex_path
    ELSE LET old_prefix == Head(path_mappings)[1]
             new_prefix == Head(path_mappings)[2]
         IN  IF startswith(plex_path, old_prefix)
             THEN replace_once(plex_path, old_prefix, new_prefix)
             ELSE apply_mappings(Tail(path_mappings), plex_path)

\* mutant: only None is returned as it is
map_path_unguarded(path_mappings, plex_path) ==
    IF plex_path = None THEN plex_path
    ELSE apply_mappings(path_mappings, strip(plex_path))

map_path(path_mappings, plex_path) ==
    IF plex_path = None \/ plex_path = <<>> THEN plex_path
    ELSE apply_mappings(path_mappings, strip(plex_path))

(***************************************************************************)
(* PlexPathMapper.__init__ and _load_mappings_from_file                    *)
(***************************************************************************)
\* line.split(",", 1)
split_comma(line) ==
    LET i == find(line, <<",">>)
    IN  IF i = 0 THEN <<line>>
        ELSE <<SubSeq(line, 1, i - 1), SubSeq(line, i + 1, Len(line))>>

RECURSIVE parse_lines(_)
parse_lines(lines) ==
    IF lines = <<>> THEN <<>>
    ELSE LET line == strip(Head(lines))
             parts == split_comma(line)
         IN  IF line = <<>> \/ startswith(line, <<"#">>) THEN parse_lines(Tail(lines))
             ELSE IF Len(parts) = 2
                  THEN << <<strip(parts[1]), strip(parts[2])>> >> \o parse_lines(Tail(lines))
                  ELSE parse_lines(Tail(lines))

\* config: <<>> when the file does not exist, else <<lines>>
_load_mappings_from_file(config) ==
    IF config = <<>> THEN <<>> ELSE parse_lines(config[1])

\* given: path_mappings is not None
__init__(given, path_mappings, config) ==
    IF given
    THEN [raised |-> FALSE, path_mappings |-> path_mappings]
    ELSE LET loaded == _load_mappings_from_file(config)
         IN  IF loaded = <<>>
             THEN [raised |-> TRUE, path_mappings |-> <<>>]
             ELSE [raised |-> FALSE, path_mappings |-> loaded]

(***************************************************************************)
(* datetime                                                                *)
(***************************************************************************)
\* the calendar year of a datetime
year(dt) == EpochYear + (dt \div (TicksPerSec * SecPerYear))

\* what datetime.fromtimestamp(t) raises, t in ticks
fromtimestamp_error(t) ==
    IF t > MaxTimeT * TicksPerSec \/ t < -(MaxTimeT * TicksPerSec) THEN "OverflowError"
    ELSE IF year(t) > 9999 \/ year(t) < 1 THEN "ValueError"
    ELSE "ok"

\* int(dt.timestamp()): truncation toward zero
epoch_seconds(dt) ==
    IF dt >= 0 THEN dt \div TicksPerSec ELSE -((-dt) \div TicksPerSec)

\* dt.year > current_year + 1 or dt.year < 1970
invalid_year(dt) == year(dt) > CurrentYear + 1 \/ year(dt) < EpochYear

(***************************************************************************)
(* pathlib: str(Path(p)) for a non-empty p                                 *)
(***************************************************************************)
RECURSIVE leading_slashes(_)
leading_slashes(p) ==
    IF p # <<>> /\ Head(p) = "/" THEN 1 + leading_slashes(Tail(p)) ELSE 0

\* the components of p between slashes; cur is the component being read
RECURSIVE path_parts(_, _)
path_parts(p, cur) ==
    LET done == IF cur = <<>> \/ cur = <<".">> THEN <<>> ELSE <<cur>>
    IN  IF p = <<>> THEN done
        ELSE IF Head(p) = "/" THEN done \o path_parts(Tail(p), <<>>)
        ELSE path_parts(Tail(p), Append(cur, Head(p)))

RECURSIVE join_parts(_)
join_parts(parts) ==
    IF parts = <<>> THEN <<>>
    ELSE IF Len(parts) = 1 THEN parts[1]
    ELSE parts[1] \o <<"/">> \o join_parts(Tail(parts))

Path(p) ==
    LET n == leading_slashes(p)
        root == IF n = 0 THEN <<>> ELSE IF n = 2 THEN <<"/", "/">> ELSE <<"/">>
        s == root \o join_parts(path_parts(p, <<>>))
    IN  IF s = <<>> THEN <<".">> ELSE s

(***************************************************************************)
(* PlexPathMapper.get_file_info                                            *)
(***************************************************************************)
NoFile == [is_file |-> FALSE, stat_ok |-> FALSE, st_mtime |-> 0]

lookup(files, path) == IF path \in DOMAIN files THEN files[path] ELSE NoFile

\* mutant: the time is read without the is_file() test
read_mtime_any(files, path) == <<lookup(files, Path(path)).st_mtime>>

\* what reading the time of path raises past the (OSError, ValueError)
\* handler: the OverflowError of datetime.fromtimestamp
read_error(files, path) ==
    LET f == lookup(files, Path(path))
    IN  IF f.is_file /\ f.stat_ok /\ fromtimestamp_error(f.st_mtime) = "OverflowError"
        THEN "OverflowError"
        ELSE "ok"

\* path.is_file() and datetime.fromtimestamp(path.stat().st_mtime), with the
\* (OSError, ValueError) handler: <<mtime>>, or <<>> when the path is no
\* regular file or the handler caught an error
read_mtime(files, path) ==
    LET f == lookup(files, Path(path))
    IN  IF f.is_file /\ f.stat_ok /\ fromtimestamp_error(f.st_mtime) = "ok"
        THEN <<f.st_mtime>>
        ELSE <<>>

\* mutant: the mapped path is never tried
get_file_info_original_only(path_mappings, files, plex_path) ==
    IF plex_path = None \/ plex_path = <<>> THEN <<<<>>, None, FALSE>>
    ELSE LET original == read_mtime(files, plex_path)
         IN  IF original # <<>> THEN <<original, Path(plex_path), TRUE>>
             ELSE <<<<>>, None, FALSE>>

\* what get_file_info raises: "ok" when it returns
get_file_info_error(path_mappings, files, plex_path) ==
    IF plex_path = None \/ plex_path = <<>> THEN "ok"
    ELSE IF read_error(files, plex_path) # "ok" THEN read_error(files, plex_path)
    ELSE IF read_mtime(files, plex_path) # <<>> THEN "ok"
    ELSE IF map_path(path_mappings, plex_path) # plex_path
    THEN read_error(files, map_path(path_mappings, plex_path))
    ELSE "ok"

\* returns <<mtime, actual_path_used, exists>>
get_file_info(path_mappings, files, plex_path) ==
    IF plex_path = None \/ plex_path = <<>> THEN <<<<>>, None, FALSE>>
    ELSE LET original == read_mtime(files, plex_path)
             mapped_path == map_path(path_mappings, plex_path)
             mapped == IF mapped_path # plex_path
                       THEN read_mtime(files, mapped_path) ELSE <<>>
         IN  IF original # <<>> THEN <<original, Path(plex_path), TRUE>>
             ELSE IF mapped # <<>> THEN <<mapped, mapped_path, TRUE>>
             ELSE <<<<>>, None, FALSE>>

(***************************************************************************)
(* The catalog store.  items[id] is the metadata_items row with that id:   *)
(* [title, added_at, created_at, updated_at], each <<>> (NULL) or <<v>>;   *)
(* parts is media_parts joined with media_items: [item, file].             *)
(***************************************************************************)
\* x > y in SQLite's and Python's order of optional integers, NULL lowest
greater(x, y) == x # <<>> /\ (y = <<>> \/ x[1] > y[1])

\* the keyed elements s with e put before the first one whose key is lower
RECURSIVE insert_desc(_, _)
insert_desc(s, e) ==
    IF s = <<>> THEN <<e>>
    ELSE IF greater(e.key, Head(s).key) THEN <<e>> \o s
    ELSE <<Head(s)>> \o insert_desc(Tail(s), e)

RECURSIVE sort_keyed(_)
sort_keyed(s) ==
    IF s = <<>> THEN <<>>
    ELSE insert_desc(sort_keyed(SubSeq(s, 1, Len(s) - 1)), s[Len(s)])

\* a stable sort of s, descending by the keys given for its elements:
\* sorted(s, key=..., reverse=True)
sort_desc(s, keys) ==
    LET keyed == sort_keyed([i \in 1..Len(s) |-> [key |-> keys[i], value |-> s[i]]])
    IN  [i \in 1..Len(s) |-> keyed[i].value]

row_updated_at(row) == row.updated_at

\* FROM metadata_items JOIN media_items JOIN media_parts WHERE file IS NOT
\* NULL AND LENGTH(file) > 0 [AND title IS NOT NULL] ORDER BY updated_at DESC
RECURSIVE join_parts_items(_, _, _)
join_parts_items(store, parts, need_title) ==
    IF parts = <<>> THEN <<>>
    ELSE LET part == Head(parts)
             rest == join_parts_items(store, Tail(parts), need_title)
         IN  IF /\ part.item \in DOMAIN store.items
                /\ part.file # None
                /\ part.file # <<>>
                /\ (need_title => store.items[part.item].title # None)
             THEN <<[id |-> part.item,
                     title |-> store.items[part.item].title,
                     added_at |-> store.items[part.item].added_at,
                     created_at |-> store.items[part.item].created_at,
                     updated_at |-> store.items[part.item].updated_at,
                     file_path |-> part.file]>> \o rest
             ELSE rest

select_rows(store, need_title) ==
    LET rows == join_parts_items(store, store.parts, need_title)
    IN  sort_desc(rows, [i \in 1..Len(rows) |-> row_updated_at(rows[i])])

(***************************************************************************)
(* PlexDatabaseManager._create_entry, _sort_entries, get_recent_media      *)
(***************************************************************************)
\* a positive catalog timestamp is converted with datetime.fromtimestamp
converted(timestamp) == timestamp # <<>> /\ timestamp[1] > 0

to_datetime(timestamp) ==
    IF converted(timestamp) THEN <<timestamp[1] * TicksPerSec>> ELSE <<>>

conversion_error(timestamp) ==
    IF converted(timestamp)
    THEN fromtimestamp_error(timestamp[1] * TicksPerSec)
    ELSE "ok"

\* what _create_entry raises for a row
_create_entry_error(row) ==
    IF conversion_error(row.added_at) # "ok" THEN conversion_error(row.added_at)
    ELSE IF conversion_error(row.created_at) # "ok" THEN conversion_error(row.created_at)
    ELSE conversion_error(row.updated_at)

_create_entry(row) ==
    [item_id |-> row.id,
     title |-> row.title,
     added_at |-> to_datetime(row.added_at),
     created_at |-> to_datetime(row.created_at),
     updated_at |-> to_datetime(row.updated_at),
     plex_path |-> row.file_path,
     actual_path |-> None,
     file_mtime |-> <<>>,
     file_exists |-> FALSE,
     path_mapped |-> FALSE]

\* datetime.min
datetime_min == (1 - EpochYear) * SecPerYear * TicksPerSec

\* mutant: a missing value sorts as the latest time
or_max(dt) == IF dt = <<>> THEN <<MaxTimeT * TicksPerSec>> ELSE dt

or_min(dt) == IF dt = <<>> THEN <<datetime_min>> ELSE dt

key_file_mtime(entry) == or_min(entry.file_mtime)

key_added_at(entry) == or_min(entry.added_at)

key_created_at(entry) == or_min(entry.created_at)

key_updated_at(entry) == or_min(entry.updated_at)

_sort_entries(entries, sort_by) ==
    IF sort_by = "file_mtime" THEN sort_desc(entries, [i \in 1..Len(entries) |-> key_file_mtime(entries[i])])
    ELSE IF sort_by = "added_at" THEN sort_desc(entries, [i \in 1..Len(entries) |-> key_added_at(entries[i])])
    ELSE IF sort_by = "created_at" THEN sort_desc(entries, [i \in 1..Len(entries) |-> key_created_at(entries[i])])
    ELSE IF sort_by = "updated_at" THEN sort_desc(entries, [i \in 1..Len(entries) |-> key_updated_at(entries[i])])
    ELSE entries

\* entries[:limit]
slice_to(s, limit) ==
    IF limit >= 0
    THEN SubSeq(s, 1, IF limit < Len(s) THEN limit ELSE Len(s))
    ELSE SubSeq(s, 1, Len(s) + limit)

\* the body of the loop over the rows: the entry of a row
row_entry(path_mappings, files, row) ==
    LET info == get_file_info(path_mappings, files, row.file_path)
        entry == _create_entry(row)
    IN  IF info[3]
        THEN [entry EXCEPT !.file_mtime = info[1],
                           !.actual_path = info[2],
                           !.file_exists = TRUE,
                           !.path_mapped = (info[2] # row.file_path)]
        ELSE entry

\* mutant: no update is appended
row_update_none(path_mappings, files, row) == <<>>

\* the update of a row: <<(timestamp, item_id)>>, or <<>> when there is none
row_update(path_mappings, files, row) ==
    LET info == get_file_info(path_mappings, files, row.file_path)
    IN  IF info[3] THEN << <<epoch_seconds(info[1][1]), row.id>> >> ELSE <<>>

RECURSIVE all_entries(_, _, _)
all_entries(path_mappings, files, rows) ==
    IF rows = <<>> THEN <<>>
    ELSE <<row_entry(path_mappings, files, Head(rows))>>
         \o all_entries(path_mappings, files, Tail(rows))

RECURSIVE all_updates(_, _, _)
all_updates(path_mappings, files, rows) ==
    IF rows = <<>> THEN <<>>
    ELSE row_update(path_mappings, files, Head(rows))
         \o all_updates(path_mappings, files, Tail(rows))

item_ids(entries) == {entries[i].item_id : i \in 1..Len(entries)}

\* mutant: the updates are not filtered after the truncation
updates_unfiltered(updates, ids) == updates

RECURSIVE updates_of_items(_, _)
updates_of_items(updates, ids) ==
    IF updates = <<>> THEN <<>>
    ELSE IF Head(updates)[2] \in ids
         THEN <<Head(updates)>> \o updates_of_items(Tail(updates), ids)
         ELSE updates_of_items(Tail(updates), ids)

\* what the body of the loop raises for a row: _create_entry, then
\* get_file_info
entry_error(path_mappings, files, row) ==
    IF _create_entry_error(row) # "ok" THEN _create_entry_error(row)
    ELSE get_file_info_error(path_mappings, files, row.file_path)

\* the first row the body of the loop raises for, 0 when there is none
first_failing_row(path_mappings, files, rows) ==
    LET bad == {i \in 1..Len(rows) : entry_error(path_mappings, files, rows[i]) # "ok"}
    IN  IF bad = {} THEN 0 ELSE CHOOSE i \in bad : \A j \in bad : i <= j

\* [raised, entries, updates]: raised is "no" or the exception that ended the call
get_recent_media(store, path_mappings, files, limit, sort_by) ==
    LET rows == select_rows(store, TRUE)
        failing == first_failing_row(path_mappings, files, rows)
        entries == slice_to(_sort_entries(all_entries(path_mappings, files, rows),
                                          sort_by), limit)
        updates == updates_of_items(all_updates(path_mappings, files, rows),
                                    item_ids(entries))
    IN  IF failing # 0
        THEN [raised |-> entry_error(path_mappings, files, rows[failing]),
              entries |-> <<>>, updates |-> <<>>]
        ELSE [raised |-> "no", entries |-> entries, updates |-> updates]

(***************************************************************************)
(* The snapshot file.  A cell is the text of a CSV field: a decimal        *)
(* numeral (kind "int"), an ISO date (kind "iso"), any other text (kind    *)
(* "text", '' included), or "missing" when the row has no such column and  *)
(* row.get gives None.  A row is a record of the columns the program       *)
(* writes from its own values or reads back.                               *)
(***************************************************************************)
Missing == [kind |-> "missing", n |-> 0, s |-> <<>>]

TextCell(s) == [kind |-> "text", n |-> 0, s |-> s]

IntCell(n) == [kind |-> "int", n |-> n, s |-> <<>>]

IsoCell(dt) == [kind |-> "iso", n |-> dt, s |-> <<>>]

Blank == TextCell(<<>>)

TrueCell == TextCell(<<"true">>)

FalseCell == TextCell(<<"false">>)

\* csv.DictWriter: None is written as '', an int as its numeral
write_int(value) == IF value = <<>> THEN Blank ELSE IntCell(value[1])

write_str(value) == IF value = None THEN Blank ELSE TextCell(value)

\* bool(row.get(column))
truthy(cell) == cell.kind # "missing" /\ cell # Blank

\* what int(cell) raises
int_error(cell) ==
    IF cell.kind = "int" THEN "ok"
    ELSE IF cell.kind = "missing" THEN "TypeError"
    ELSE "ValueError"

\* a database file without tables
NoStore == [items |-> <<>>, parts |-> <<>>]

(***************************************************************************)
(* CSVHandler.export_full_media_data_to_csv                                *)
(***************************************************************************)
\* the rows of the query, with " LIMIT {limit}" appended when limit is truthy
export_rows(store, limit) ==
    LET rows == select_rows(store, FALSE)
    IN  IF limit > 0 /\ limit < Len(rows) THEN SubSeq(rows, 1, limit) ELSE rows

\* mutant: the original value is kept also when the file exists
keep_updated_at(exists, file_mtime, updated_at) == write_int(updated_at)

\* row_dict['new_updated_at']: the file time if the file exists, otherwise
\* the original value
set_new_updated_at(exists, file_mtime, updated_at) ==
    IF exists /\ file_mtime # <<>>
    THEN IntCell(epoch_seconds(file_mtime[1]))
    ELSE write_int(updated_at)

\* the body of the loop over the rows: the row written for a row read
export_row(path_mappings, files, row) ==
    LET info == get_file_info(path_mappings, files, row.file_path)
        file_mtime == info[1]
        actual_path == info[2]
        exists == info[3]
    IN  [id |-> IntCell(row.id),
         updated_at |-> write_int(row.updated_at),
         original_file_path |-> write_str(row.file_path),
         file_exists |-> IF exists THEN TrueCell ELSE FalseCell,
         actual_file_path |-> write_str(actual_path),
         file_mtime |-> IF file_mtime # <<>> THEN IsoCell(file_mtime[1]) ELSE Blank,
         file_mtime_timestamp |->
            IF file_mtime # <<>> THEN IntCell(epoch_seconds(file_mtime[1])) ELSE Blank,
         path_was_mapped |-> IF actual_path # row.file_path THEN TrueCell ELSE FalseCell,
         new_updated_at |-> set_new_updated_at(exists, file_mtime, row.updated_at)]

RECURSIVE export_all(_, _, _)
export_all(path_mappings, files, rows) ==
    IF rows = <<>> THEN <<>>
    ELSE <<export_row(path_mappings, files, Head(rows))>>
         \o export_all(path_mappings, files, Tail(rows))

\* the rows written before the first row get_file_info raises for
rows_written(path_mappings, files, rows) ==
    LET bad == {i \in 1..Len(rows) :
                   get_file_info_error(path_mappings, files, rows[i].file_path) # "ok"}
    IN  IF bad = {} THEN rows
        ELSE SubSeq(rows, 1, (CHOOSE i \in bad : \A j \in bad : i <= j) - 1)

\* the file after the loop over rows, and whether the loop ended without an
\* exception
write_rows(path_mappings, files, rows, written) ==
    [result |-> written = rows, csv |-> <<export_all(path_mappings, files, written)>>]

\* [result, csv]: writable is whether csv_path can be opened for writing; on
\* a database without tables the query raises
export_full_media_data_to_csv(store, old_csv, path_mappings, files, limit, writable) ==
    IF writable /\ store # NoStore
    THEN write_rows(path_mappings, files, export_rows(store, limit),
                    rows_written(path_mappings, files, export_rows(store, limit)))
    ELSE [result |-> FALSE, csv |-> old_csv]

(***************************************************************************)
(* CSVHandler.create_db_from_csv                                           *)
(***************************************************************************)
\* updates[metadata_id] = new_timestamp on a dict kept as a sequence of
\* <<id, timestamp>> in insertion order
RECURSIVE dict_set(_, _, _)
dict_set(updates, id, timestamp) ==
    IF updates = <<>> THEN << <<id, timestamp>> >>
    ELSE IF Head(updates)[1] = id THEN << <<id, timestamp>> >> \o Tail(updates)
    ELSE <<Head(updates)>> \o dict_set(Tail(updates), id, timestamp)

\* row.get('file_exists') == 'true' and row.get('new_updated_at')
row_selected(row) == row.file_exists = TrueCell /\ truthy(row.new_updated_at)

\* what the body of the loop raises for a selected row
row_error(row, fix_invalid_dates) ==
    IF int_error(row.id) # "ok" THEN int_error(row.id)
    ELSE IF int_error(row.new_updated_at) # "ok" THEN int_error(row.new_updated_at)
    ELSE IF /\ fix_invalid_dates
            /\ fromtimestamp_error(row.new_updated_at.n * TicksPerSec) = "OverflowError"
         THEN "OverflowError"
    ELSE "ok"

\* mutant: no timestamp is validated
row_skipped_never(row, fix_invalid_dates) == FALSE

\* the row is skipped by one of the two `continue`
row_skipped(row, fix_invalid_dates) ==
    /\ fix_invalid_dates
    /\ \/ fromtimestamp_error(row.new_updated_at.n * TicksPerSec) = "ValueError"
       \/ invalid_year(row.new_updated_at.n * TicksPerSec)

\* the loop over the rows: [raised, updates]
RECURSIVE read_updates(_, _, _)
read_updates(rows, fix_invalid_dates, updates) ==
    IF rows = <<>> THEN [raised |-> "no", updates |-> updates]
    ELSE LET row == Head(rows)
         IN  IF ~row_selected(row)
             THEN read_updates(Tail(rows), fix_invalid_dates, updates)
             ELSE IF row_error(row, fix_invalid_dates) # "ok"
             THEN [raised |-> row_error(row, fix_invalid_dates), updates |-> updates]
             ELSE IF row_skipped(row, fix_invalid_dates)
             THEN read_updates(Tail(rows), fix_invalid_dates, updates)
             ELSE read_updates(Tail(rows), fix_invalid_dates,
                               dict_set(updates, row.id.n, row.new_updated_at.n))

\* UPDATE metadata_items SET updated_at = ? WHERE id = ?
sql_update(store, timestamp, id) ==
    IF id \in DOMAIN store.items
    THEN [store EXCEPT !.items[id].updated_at = <<timestamp>>]
    ELSE store

\* the loop over updates.items(): [store, successful_updates]; failing is
\* the ids whose UPDATE raises sqlite3.Error, as every UPDATE does on a
\* database without tables
RECURSIVE apply_csv_updates(_, _, _, _)
apply_csv_updates(store, updates, failing, successful_updates) ==
    IF updates = <<>>
    THEN [store |-> store, successful_updates |-> successful_updates]
    ELSE LET metadata_id == Head(updates)[1]
             new_timestamp == Head(updates)[2]
         IN  IF metadata_id \in failing \/ store = NoStore
             THEN apply_csv_updates(store, Tail(updates), failing, successful_updates)
             ELSE apply_csv_updates(sql_update(store, new_timestamp, metadata_id),
                                    Tail(updates), failing, successful_updates + 1)

SrcPath == "template_db_path"

DstPath == "output_db_path"

\* shutil.copy2(source, output_path): what it raises
copy2_error(output_path, copy_ok) ==
    IF output_path = SrcPath THEN "SameFileError"
    ELSE IF ~copy_ok THEN "OSError"
    ELSE "ok"

\* [result, updates, executed, db, dup]: the return value, the updates read
\* from the snapshot, the number of UPDATE statements executed, and the
\* stores at the two database paths afterwards.
\* snapshot is <<>> when csv_path cannot be read.
create_db_from_csv(snapshot, store, old_dup, output_path, fix_invalid_dates, copy_ok, failing) ==
    LET copied == IF copy2_error(output_path, copy_ok) = "ok" THEN <<store>> ELSE old_dup
        read == read_updates(snapshot[1], fix_invalid_dates, <<>>)
        applied == apply_csv_updates(store, read.updates, failing, 0)
    IN  IF copy2_error(output_path, copy_ok) # "ok"
        THEN [result |-> FALSE, updates |-> <<>>, executed |-> 0, db |-> store, dup |-> old_dup]
        ELSE IF snapshot = <<>>
        THEN [result |-> FALSE, updates |-> <<>>, executed |-> 0, db |-> store, dup |-> copied]
        ELSE IF read.raised # "no" \/ read.updates = <<>>
        THEN [result |-> FALSE, updates |-> <<>>, executed |-> 0, db |-> store, dup |-> copied]
        ELSE [result |-> applied.successful_updates > 0,
              updates |-> read.updates,
              executed |-> Len(read.updates),
              db |-> store,
              dup |-> <<applied.store>>]

(***************************************************************************)
(* PlexDatabaseManager.update_database_copy                                *)
(***************************************************************************)
\* How the search for the Plex SQLite binary and the shell command built
\* from it can end: no binary found; exit status not 0; exit status 0 with the
\* backup written to output_path; exit status 0 with nothing written (the
\* command line is joined unquoted, so what runs is not under the program's
\* control).
PlexSqliteOutcomes == {"absent", "failed", "written", "unwritten"}

\* the copy step: [raised, dup], dup the file at the other path afterwards
copy_database(store, old_dup, output_path, plex_sqlite, copy_ok) ==
    IF plex_sqlite \in {"written", "unwritten"}
    THEN [raised |-> "no",
          dup |-> IF plex_sqlite = "written" /\ output_path = DstPath
                  THEN <<store>> ELSE old_dup]
    ELSE IF copy2_error(output_path, copy_ok) # "ok"
    THEN [raised |-> copy2_error(output_path, copy_ok), dup |-> old_dup]
    ELSE [raised |-> "no", dup |-> <<store>>]

\* sqlite3.connect(output_path): the database the updates run on; a path
\* with no file gives a new database without tables
connect(store, dup_file, output_path) ==
    IF output_path = SrcPath THEN store
    ELSE IF dup_file = <<>> THEN NoStore
    ELSE dup_file[1]

\* mutant: with validation on every update is skipped
update_skipped_always(mtime, fix_invalid_dates) == fix_invalid_dates

\* the `continue` of the loop
update_skipped(mtime, fix_invalid_dates) ==
    fix_invalid_dates /\ invalid_year(mtime * TicksPerSec)

\* the loop over updates: [raised, store, successful_updates]
RECURSIVE apply_updates(_, _, _, _, _)
apply_updates(store, updates, fix_invalid_dates, failing, successful_updates) ==
    IF updates = <<>>
    THEN [raised |-> "no", store |-> store, successful_updates |-> successful_updates]
    ELSE LET mtime == Head(updates)[1]
             item_id == Head(updates)[2]
         IN  IF fix_invalid_dates /\ fromtimestamp_error(mtime * TicksPerSec) # "ok"
             THEN [raised |-> fromtimestamp_error(mtime * TicksPerSec),
                   store |-> store, successful_updates |-> successful_updates]
             ELSE IF update_skipped(mtime, fix_invalid_dates)
             THEN apply_updates(store, Tail(updates), fix_invalid_dates, failing,
                                successful_updates)
             ELSE IF item_id \in failing \/ store = NoStore
             THEN apply_updates(store, Tail(updates), fix_invalid_dates, failing,
                                successful_updates)
             ELSE apply_updates(sql_update(store, mtime, item_id), Tail(updates),
                                fix_invalid_dates, failing, successful_updates + 1)

\* [result, db, dup]: the return value and the stores at the two paths
\* afterwards; a call that raises leaves the connection uncommitted
update_database_copy(store, old_dup, updates, output_path, fix_invalid_dates, plex_sqlite, copy_ok, failing) ==
    LET copy == copy_database(store, old_dup, output_path, plex_sqlite, copy_ok)
        opened == connect(store, copy.dup, output_path)
        applied == apply_updates(opened, updates, fix_invalid_dates, failing, 0)
        closed == IF applied.raised = "no" THEN applied.store ELSE opened
    IN  IF copy.raised # "no"
        THEN [result |-> FALSE, db |-> store, dup |-> copy.dup]
        ELSE [result |-> applied.raised = "no" /\ applied.successful_updates > 0,
              db |-> IF output_path = SrcPath THEN closed ELSE store,
              dup |-> IF output_path = SrcPath THEN copy.dup ELSE <<closed>>]

(***************************************************************************)
(* CSVHandler.analyze_csv, PlexDatabaseManager.__init__ and                *)
(* analyze_path_mappings, main                                             *)
(***************************************************************************)
\* whether analyze_csv logs an error: the file cannot be read, or it has no
\* row and the percentages divide by zero
analyze_csv(snapshot) == snapshot = <<>> \/ snapshot[1] = <<>>

\* a --db argument that names no file
MissingPath == "missing_db_path"

\* an --output argument that is the empty string
EmptyPath == ""

\* what PlexDatabaseManager(db_path, path_mapper) raises
manager_error(db_path) == IF db_path = SrcPath THEN "ok" ELSE "FileNotFoundError"

\* Path(p).exists() in analyze_path_mappings
exists(files, path) == path # None /\ path # <<>> /\ lookup(files, Path(path)).is_file

\* the counts analyze_path_mappings returns
analyze_path_mappings(store, path_mappings, files, limit) ==
    LET parts == SelectSeq(store.parts, LAMBDA part : part.file # None /\ part.file # <<>>)
        paths == IF limit > 0 /\ limit < Len(parts) THEN SubSeq(parts, 1, limit) ELSE parts
        original == {i \in 1..Len(paths) : exists(files, paths[i].file)}
        mapped == {i \in 1..Len(paths) :
                      /\ i \notin original
                      /\ exists(files, map_path(path_mappings, paths[i].file))}
    IN  [raised |-> IF store = NoStore THEN "OperationalError" ELSE "no",
         original_exists |-> Cardinality(original),
         mapped_exists |-> Cardinality(mapped),
         still_missing |-> Len(paths) - Cardinality(original) - Cardinality(mapped),
         total |-> Len(paths)]

\* the valid_updates of main: the updates whose id has an entry with file_exists
valid_updates(entries, updates) ==
    SelectSeq(updates, LAMBDA u :
        \E i \in 1..Len(entries) : entries[i].item_id = u[2] /\ entries[i].file_exists)

\* the result of a run of main that ends in `return code`: reported is
\* whether an error was logged or the operation of the mode returned failure
Exit(code, reported, store, dup_file, snapshot) ==
    [code |-> code, raised |-> "no", reported |-> reported, executed |-> 0,
     db |-> store, dup |-> dup_file, csv |-> snapshot]

\* the result of a run of main that an exception ends
Uncaught(exception, store, dup_file, snapshot) ==
    [code |-> 1, raised |-> exception, reported |-> TRUE, executed |-> 0,
     db |-> store, dup |-> dup_file, csv |-> snapshot]

\* --analyze-csv
main_analyze_csv(store, old_dup, snapshot) ==
    Exit(0, analyze_csv(snapshot), store, old_dup, snapshot)

\* return 0 if success else 1, r being what create_db_from_csv gave
import_exit(r, snapshot) ==
    [code |-> IF r.result THEN 0 ELSE 1, raised |-> "no", reported |-> ~r.result,
     executed |-> r.executed, db |-> r.db, dup |-> r.dup, csv |-> snapshot]

\* --import-csv
main_import_csv(args, env, store, old_dup, snapshot) ==
    IF args.output = EmptyPath THEN Exit(1, TRUE, store, old_dup, snapshot)
    ELSE import_exit(create_db_from_csv(snapshot, store, old_dup, args.output,
                                        args.fix_invalid_dates,
                                        env.copy_ok /\ args.db = SrcPath, env.failing),
                     snapshot)

\* return 0 if success else 1, r being what the export gave
export_exit(r, store, old_dup) ==
    Exit(IF r.result THEN 0 ELSE 1, ~r.result, store, old_dup, r.csv)

\* --export-csv: PlexPathMapper() is constructed outside any try
main_export_csv(args, env, path_mapper, store, files, old_dup, snapshot) ==
    IF path_mapper.raised THEN Uncaught("ValueError", store, old_dup, snapshot)
    ELSE export_exit(export_full_media_data_to_csv(
                         IF args.db = SrcPath THEN store ELSE NoStore, snapshot,
                         path_mapper.path_mappings, files, args.limit, env.writable),
                     store, old_dup)

\* --analyze: an exception of the analysis is caught and gives 1
main_analyze(analysis, store, old_dup, snapshot) ==
    Exit(IF analysis.raised = "no" THEN 0 ELSE 1, analysis.raised # "no",
         store, old_dup, snapshot)

\* return 0 if success else 1, w being what update_database_copy gave
write_exit(w, snapshot) ==
    [code |-> IF w.result THEN 0 ELSE 1, raised |-> "no", reported |-> ~w.result,
     executed |-> 0, db |-> w.db, dup |-> w.dup, csv |-> snapshot]

\* the default mode from valid_updates on
main_write(args, env, valid, store, old_dup, snapshot) ==
    IF valid = <<>> THEN Exit(1, FALSE, store, old_dup, snapshot)
    ELSE IF ~args.write \/ args.use_plex_sqlite
    THEN Exit(0, FALSE, store, old_dup, snapshot)
    ELSE write_exit(update_database_copy(store, old_dup, valid, args.output,
                                         args.fix_invalid_dates, env.plex_sqlite,
                                         env.copy_ok, env.failing),
                    snapshot)

\* the default mode from the result of get_recent_media on
main_recent(args, env, media, store, old_dup, snapshot) ==
    IF media.raised # "no" THEN Exit(1, TRUE, store, old_dup, snapshot)
    ELSE main_write(args, env, valid_updates(media.entries, media.updates),
                    store, old_dup, snapshot)

\* --analyze, and the default mode with or without --write
main_catalog(args, env, path_mapper, store, files, old_dup, snapshot) ==
    IF path_mapper.raised \/ manager_error(args.db) # "ok"
    THEN Exit(1, TRUE, store, old_dup, snapshot)
    ELSE IF args.analyze
    THEN main_analyze(analyze_path_mappings(store, path_mapper.path_mappings, files,
                                            args.limit),
                      store, old_dup, snapshot)
    ELSE main_recent(args, env,
                     get_recent_media(store, path_mapper.path_mappings, files,
                                      args.limit, args.sort_by),
                     store, old_dup, snapshot)

\* path_mapper is what PlexPathMapper() gives where the run constructs it
main(args, env, path_mapper, store, files, old_dup, snapshot) ==
    IF args.analyze_csv THEN main_analyze_csv(store, old_dup, snapshot)
    ELSE IF args.import_csv THEN main_import_csv(args, env, store, old_dup, snapshot)
    ELSE IF args.export_csv
    THEN main_export_csv(args, env, path_mapper, store, files, old_dup, snapshot)
    ELSE main_catalog(args, env, path_mapper, store, files, old_dup, snapshot)

(***************************************************************************)
(* The state before any operation.                                         *)
(***************************************************************************)
NoMapper == [constructed |-> FALSE, path_mappings |-> <<>>]

Mapper(path_mappings) == [constructed |-> TRUE, path_mappings |-> path_mappings]

Idle ==
    /\ dup = <<>>
    /\ csv = <<>>
    /\ call = [op |-> "none"]
    /\ ret = <<>>

(***************************************************************************)
(* SpecMap: constructing a PlexPathMapper and calling map_path.            *)
(***************************************************************************)
PathChars == {"/", "a", " "}

OldPrefixes == {<<>>, <<"/">>, <<"a">>, <<"/", "a">>}

NewPrefixes == {<<>>, <<"b">>, <<"/", "a">>}

RuleLists == Strs(OldPrefixes \X NewPrefixes, MaxRules)

\* the lines a configuration file is made of
ConfigLines ==
    { <<>>,
      <<"#", "a", ",", "b">>,
      <<"a">>,
      <<"/", "a", ",", "b">>,
      <<" ", "a", " ", ",", " ", "b", " ">>,
      <<",", "b">>,
      <<"a", ",", "b", ",", "a">> }

\* <<>>: no configuration file
ConfigFiles == {<<>>} \cup {<<lines>> : lines \in Strs(ConfigLines, MaxRules)}

MapPathArgs == {None} \cup Strs(PathChars, MaxPathLen)

InitMap ==
    /\ mapper = NoMapper
    /\ fs = <<>>
    /\ db = NoStore
    /\ Idle

\* PlexPathMapper(path_mappings=...)
ConstructGiven ==
    \E path_mappings \in RuleLists :
        LET r == __init__(TRUE, path_mappings, <<>>)
        IN  /\ ~mapper.constructed
            /\ mapper' = IF r.raised THEN mapper ELSE Mapper(r.path_mappings)
            /\ call' = [op |-> "__init__", given |-> TRUE,
                        path_mappings |-> path_mappings, config |-> <<>>]
            /\ ret' = IF r.raised THEN "ValueError" ELSE "ok"
            /\ UNCHANGED <<fs, db, dup, csv>>

\* PlexPathMapper(config_path=...)
ConstructFromFile ==
    \E config \in ConfigFiles :
        LET r == __init__(FALSE, <<>>, config)
        IN  /\ ~mapper.constructed
            /\ mapper' = IF r.raised THEN mapper ELSE Mapper(r.path_mappings)
            /\ call' = [op |-> "__init__", given |-> FALSE,
                        path_mappings |-> <<>>, config |-> config]
            /\ ret' = IF r.raised THEN "ValueError" ELSE "ok"
            /\ UNCHANGED <<fs, db, dup, csv>>

\* one call is explored on each instance: map_path changes no state
MapPath ==
    /\ mapper.constructed
    /\ call.op = "__init__"
    /\ \E plex_path \in MapPathArgs :
        /\ call' = [op |-> "map_path", plex_path |-> plex_path]
        /\ ret' = map_path(mapper.path_mappings, plex_path)
    /\ UNCHANGED <<mapper, fs, db, dup, csv>>

NextMap == ConstructGiven \/ ConstructFromFile \/ MapPath

SpecMap == InitMap /\ [][NextMap]_vars

\* the rules whose old prefix is a literal prefix of p
matching(path_mappings, p) ==
    {i \in 1..Len(path_mappings) : startswith(p, path_mappings[i][1])}

first_match(path_mappings, p) ==
    CHOOSE i \in matching(path_mappings, p) :
        \A j \in matching(path_mappings, p) : i <= j

\* C2: for a non-empty path, map_path returns the trimmed path with the old
\* prefix of the first matching rule replaced once, at the start, by its new
\* prefix, and the trimmed path itself when no rule matches.
C2_FirstPrefixReplacedOnce ==
    (call.op = "map_path" /\ call.plex_path # None /\ call.plex_path # <<>>) =>
        LET p == strip(call.plex_path)
            rules == mapper.path_mappings
        IN  IF matching(rules, p) = {} THEN ret = p
            ELSE LET rule == rules[first_match(rules, p)]
                 IN  ret = rule[2] \o SubSeq(p, Len(rule[1]) + 1, Len(p))

\* a call where the trimmed path differs from the path, two rules match, the
\* old prefix occurs again later in the path, and the result could be mapped
\* again
C2_Witness ==
    /\ call.op = "map_path"
    /\ call.plex_path # None
    /\ strip(call.plex_path) # call.plex_path
    /\ Cardinality(matching(mapper.path_mappings, strip(call.plex_path))) = 2
    /\ LET p == strip(call.plex_path)
           old == mapper.path_mappings[first_match(mapper.path_mappings, p)][1]
       IN  old # <<>> /\ find(Tail(p), old) # 0
    /\ matching(mapper.path_mappings, ret) # {}
    /\ ret # strip(call.plex_path)

\* C9: no PlexPathMapper instance has an empty rule list.
C9_NoEmptyRuleList ==
    mapper.constructed => mapper.path_mappings # <<>>

\* C20: map_path returns the empty string for the empty string and None for
\* None, whatever the rule list.
C20_EmptyInputUnchanged ==
    (call.op = "map_path" /\ call.plex_path \in {None, <<>>}) =>
        ret = call.plex_path

\* a call with the empty string on a mapper whose first rule has an empty
\* old prefix, which every string starts with, and a new prefix to put in
C20_Witness ==
    /\ call.op = "map_path"
    /\ call.plex_path = <<>>
    /\ mapper.path_mappings # <<>>
    /\ mapper.path_mappings[1][1] = <<>>
    /\ mapper.path_mappings[1][2] # <<>>
    /\ ret = <<>>

(***************************************************************************)
(* The media files and the rules of the other specifications.              *)
(***************************************************************************)
\* a time in year y, k ticks after its start
Tick(y, k) == (y - EpochYear) * SecPerYear * TicksPerSec + k

\* a catalog timestamp in year y, in seconds
Sec(y, k) == (y - EpochYear) * SecPerYear + k

File(st_mtime) == [is_file |-> TRUE, stat_ok |-> TRUE, st_mtime |-> st_mtime]

\* a regular file whose stat() raises OSError
Unreadable == [is_file |-> TRUE, stat_ok |-> FALSE, st_mtime |-> 0]

UPath == <<"/", "u", "/", "a">>

HPath == <<"/", "h", "/", "a">>

FsPaths == {UPath, HPath}

UToH == <<<<"/", "u", "/">>, <<"/", "h", "/">>>>

HToU == <<<<"/", "h", "/">>, <<"/", "u", "/">>>>

(***************************************************************************)
(* SpecProbe: get_file_info on a mapper and a file system.                 *)
(***************************************************************************)
\* no file; a file stat() fails on; files with a time, one of them beyond
\* year 9999 and one beyond the range of time_t
ProbeStatuses ==
    {NoFile, Unreadable, File(Tick(2009, 1)), File(Tick(2023, 0)), File(Tick(10000, 0)),
     File(MaxTimeT * TicksPerSec + 1)}

ProbeRuleLists == Strs({UToH, HToU}, MaxRules)

ProbeArgs ==
    { None, <<>>, UPath, HPath,
      <<"/", "u", "/", "/", "a">>,
      <<" ", "/", "u", "/", "a">>,
      <<"/", "a">> }

InitProbe ==
    /\ mapper \in {Mapper(rules) : rules \in ProbeRuleLists}
    /\ fs \in [FsPaths -> ProbeStatuses]
    /\ db = NoStore
    /\ Idle

\* one call is explored in each state of the files: get_file_info changes nothing
GetFileInfo ==
    /\ call.op = "none"
    /\ \E plex_path \in ProbeArgs :
       \E error \in {get_file_info_error(mapper.path_mappings, fs, plex_path)} :
        /\ call' = [op |-> "get_file_info", plex_path |-> plex_path]
        /\ ret' = IF error = "ok"
                  THEN [raised |-> "no",
                        info |-> get_file_info(mapper.path_mappings, fs, plex_path)]
                  ELSE [raised |-> error, info |-> <<>>]
    /\ UNCHANGED <<mapper, fs, db, dup, csv>>

NextProbe == GetFileInfo

SpecProbe == InitProbe /\ [][NextProbe]_vars

\* C3: whenever the stored path is a regular file whose modification time can
\* be read, get_file_info returns (its mtime, the original path, true).
C3_OriginalPathReturned ==
    (/\ call.op = "get_file_info"
     /\ call.plex_path # None
     /\ call.plex_path # <<>>
     /\ read_mtime(fs, call.plex_path) # <<>>) =>
        /\ ret.raised = "no"
        /\ ret.info = <<read_mtime(fs, call.plex_path), call.plex_path, TRUE>>

\* (None, None, False)
Absent == <<<<>>, None, FALSE>>

\* a probe that returned
Probing == call.op = "get_file_info" /\ ret.raised = "no"

EmptyInput == call.plex_path = None \/ call.plex_path = <<>>

\* the path map_path gives for the path of the call
MappedPath == map_path(mapper.path_mappings, call.plex_path)

\* neither the path of the call nor a differing mapped path is a regular file
NoRegularFile ==
    /\ ~lookup(fs, Path(call.plex_path)).is_file
    /\ MappedPath = call.plex_path \/ ~lookup(fs, Path(MappedPath)).is_file

\* C21: get_file_info returns (None, None, False) for an empty path and
\* whenever neither the original nor a differing mapped path is a regular
\* file, and exists is true exactly when the time and the path are present.
C21_ComponentsAgree ==
    Probing =>
        /\ ret.info[3] <=> (ret.info[1] # <<>> /\ ret.info[2] # None)
        /\ EmptyInput => ret.info = Absent
        /\ (~EmptyInput /\ NoRegularFile) => ret.info = Absent

\* a probe of a path that is no regular file, whose differing mapped path is
\* no regular file either
C21_Witness ==
    /\ Probing
    /\ ~EmptyInput
    /\ MappedPath # call.plex_path
    /\ MappedPath \in DOMAIN fs
    /\ NoRegularFile
    /\ ret.info = Absent

\* the path of the call is a regular file whose time cannot be read, or
\* cannot be made a date of
OriginalFails ==
    /\ ~EmptyInput
    /\ lookup(fs, Path(call.plex_path)).is_file
    /\ read_mtime(fs, call.plex_path) = <<>>

\* the mapped path differs and is a regular file whose time cannot be read
MappedFails ==
    /\ ~EmptyInput
    /\ MappedPath # call.plex_path
    /\ lookup(fs, Path(MappedPath)).is_file
    /\ read_mtime(fs, MappedPath) = <<>>

\* the mapped path differs and is a regular file whose time can be read
MappedUsable ==
    /\ MappedPath # call.plex_path
    /\ read_mtime(fs, MappedPath) # <<>>
    /\ read_error(fs, MappedPath) = "ok"

\* C22: get_file_info raises no error of reading a modification time: an
\* original path whose time cannot be read counts as not found and the mapped
\* path is tried, its result returned if usable and (None, None, False)
\* otherwise; the same for the mapped path.
C22_ReadErrorsTolerated ==
    call.op = "get_file_info" =>
        /\ ret.raised = "no"
        /\ (OriginalFails /\ MappedUsable) =>
              ret.info = <<read_mtime(fs, MappedPath), MappedPath, TRUE>>
        /\ (OriginalFails /\ ~MappedUsable) => ret.info = Absent
        /\ (MappedFails /\ read_mtime(fs, call.plex_path) = <<>>) => ret.info = Absent

(***************************************************************************)
(* SpecRecon: one reconciliation pass over a catalog and the media files.  *)
(***************************************************************************)
MaxParts == 2
MaxLimit == 2

ItemIds == {1, 2}

Title == <<"T">>

\* the metadata_items rows: all times equal; times that differ, one of them
\* not positive and one NULL; no title; an updated_at beyond year 9999
ItemChoices ==
    { [title |-> Title, added_at |-> <<Sec(2009, 0)>>,
       created_at |-> <<Sec(2009, 0)>>, updated_at |-> <<Sec(2009, 0)>>],
      [title |-> Title, added_at |-> <<Sec(2023, 1)>>,
       created_at |-> <<0>>, updated_at |-> <<>>],
      [title |-> None, added_at |-> <<Sec(2009, 0)>>,
       created_at |-> <<Sec(2023, 0)>>, updated_at |-> <<Sec(2023, 0)>>],
      [title |-> Title, added_at |-> <<Sec(2009, 0)>>,
       created_at |-> <<Sec(2009, 0)>>, updated_at |-> <<Sec(10001, 0)>>] }

StoredPaths == {UPath, HPath}

ReconStores ==
    {[items |-> items, parts |-> parts] :
        items \in [ItemIds -> ItemChoices],
        parts \in Strs([item : ItemIds, file : StoredPaths], MaxParts)}

ReconStatuses == {NoFile, File(Tick(2009, 1)), File(Tick(2099, 0))}

Limits == (-1)..MaxLimit

SortKeys == {"file_mtime", "added_at", "created_at", "updated_at", "title"}

InitRecon ==
    /\ mapper = Mapper(<<UToH>>)
    /\ fs \in [FsPaths -> ReconStatuses]
    /\ db \in ReconStores
    /\ Idle

GetRecentMedia ==
    /\ call.op = "none"
    /\ \E limit \in Limits, sort_by \in SortKeys :
        /\ call' = [op |-> "get_recent_media", limit |-> limit, sort_by |-> sort_by]
        /\ ret' = get_recent_media(db, mapper.path_mappings, fs, limit, sort_by)
    /\ UNCHANGED <<mapper, fs, db, dup, csv>>

Export ==
    /\ call.op = "none"
    /\ \E limit \in Limits, writable \in BOOLEAN :
        LET r == export_full_media_data_to_csv(db, csv, mapper.path_mappings, fs,
                                               limit, writable)
        IN  /\ call' = [op |-> "export_full_media_data_to_csv", limit |-> limit]
            /\ csv' = r.csv
            /\ ret' = [result |-> r.result]
    /\ UNCHANGED <<mapper, fs, db, dup>>

\* create_db_from_csv on the file an export has written
Import ==
    /\ call.op = "export_full_media_data_to_csv"
    /\ ret.result
    /\ \E fix_invalid_dates \in BOOLEAN :
        LET r == create_db_from_csv(csv, db, dup, DstPath, fix_invalid_dates, TRUE, {})
        IN  /\ call' = [op |-> "create_db_from_csv", limit |-> call.limit,
                        output_path |-> DstPath,
                        fix_invalid_dates |-> fix_invalid_dates]
            /\ ret' = [result |-> r.result, updates |-> r.updates]
            /\ db' = r.db
            /\ dup' = r.dup
    /\ UNCHANGED <<mapper, fs, csv>>

NextRecon == GetRecentMedia \/ Export \/ Import

SpecRecon == InitRecon /\ [][NextRecon]_vars

Returned == call.op = "get_recent_media" /\ ret.raised = "no"

\* the rows get_recent_media reads, and what it makes of them before the
\* sort and the truncation
RowsRead == select_rows(db, TRUE)

\* the stored path of the row is no regular file, its mapped path differs
\* from it and is a regular file whose modification time can be read
FoundMappedOnly(row) ==
    /\ ~lookup(fs, Path(row.file_path)).is_file
    /\ map_path(mapper.path_mappings, row.file_path) # row.file_path
    /\ read_mtime(fs, map_path(mapper.path_mappings, row.file_path)) # <<>>

MappedTime(row) == read_mtime(fs, map_path(mapper.path_mappings, row.file_path))

\* the entry and the update the claim describes for such a row
IsMappedEntry(entry, row) ==
    /\ entry.item_id = row.id
    /\ entry.plex_path = row.file_path
    /\ entry.file_exists
    /\ entry.actual_path = map_path(mapper.path_mappings, row.file_path)
    /\ entry.path_mapped
    /\ entry.file_mtime = MappedTime(row)

HasUpdate(timestamp, id) ==
    \E i \in 1..Len(ret.updates) : ret.updates[i] = <<timestamp, id>>

ProbeOfMapped(row) ==
    get_file_info(mapper.path_mappings, fs, row.file_path)
        = <<MappedTime(row), map_path(mapper.path_mappings, row.file_path), TRUE>>

\* C4 as stated, on the calls with a positive limit that return: for a record
\* found under its mapped path only, get_file_info returns (T, mapped path,
\* true) and get_recent_media yields an entry with file_exists, actual_path =
\* the mapped path, path_mapped, and the update (epoch seconds of T, id).
C4_MappedEntryYielded ==
    (Returned /\ call.limit > 0) =>
        \A i \in 1..Len(RowsRead) :
            FoundMappedOnly(RowsRead[i]) =>
                /\ ProbeOfMapped(RowsRead[i])
                /\ \E j \in 1..Len(ret.entries) : IsMappedEntry(ret.entries[j], RowsRead[i])
                /\ HasUpdate(epoch_seconds(MappedTime(RowsRead[i])[1]), RowsRead[i].id)

\* C4 amended: get_file_info returns (T, mapped path, true), and whenever the
\* entry of that record is among the entries get_recent_media returns, it has
\* file_exists, actual_path = the mapped path, path_mapped, and the update
\* (epoch seconds of T, id) is among the returned updates.
C4_MappedEntryWhenReturned ==
    call.op = "get_recent_media" =>
        \A i \in 1..Len(RowsRead) :
            FoundMappedOnly(RowsRead[i]) =>
                /\ ProbeOfMapped(RowsRead[i])
                /\ ret.raised = "no" =>
                    \A j \in 1..Len(ret.entries) :
                        (/\ ret.entries[j].item_id = RowsRead[i].id
                         /\ ret.entries[j].plex_path = RowsRead[i].file_path) =>
                            /\ IsMappedEntry(ret.entries[j], RowsRead[i])
                            /\ HasUpdate(epoch_seconds(MappedTime(RowsRead[i])[1]),
                                         RowsRead[i].id)

\* a pass that returns the entry of a record found under its mapped path
\* only, with a modification time that is not a whole second, after cutting
\* another entry off
C4_Witness ==
    /\ Returned
    /\ Len(ret.entries) < Len(RowsRead)
    /\ \E i \in 1..Len(RowsRead) :
        /\ FoundMappedOnly(RowsRead[i])
        /\ MappedTime(RowsRead[i])[1] # epoch_seconds(MappedTime(RowsRead[i])[1]) * TicksPerSec
        /\ \E j \in 1..Len(ret.entries) : IsMappedEntry(ret.entries[j], RowsRead[i])

\* C6: every update get_recent_media returns has the id of a returned entry.
C6_UpdatesWithinEntries ==
    Returned =>
        \A i \in 1..Len(ret.updates) :
            \E j \in 1..Len(ret.entries) : ret.entries[j].item_id = ret.updates[i][2]

\* a pass whose limit cut off an entry that had an update, and kept another
C6_Witness ==
    /\ Returned
    /\ call.limit > 0
    /\ ret.updates # <<>>
    /\ Len(ret.updates) < Len(all_updates(mapper.path_mappings, fs, RowsRead))

\* C7: a limit > 0 truncates the sorted entries to limit entries; a
\* limit <= 0 returns all entries and all their updates.
C7_NonPositiveLimitUnlimited ==
    Returned =>
        IF call.limit > 0
        THEN Len(ret.entries) =
                IF call.limit < Len(RowsRead) THEN call.limit ELSE Len(RowsRead)
        ELSE /\ Len(ret.entries) = Len(RowsRead)
             /\ ret.updates = all_updates(mapper.path_mappings, fs, RowsRead)

\* C8: get_recent_media never fails because of one record.
C8_NeverFails ==
    call.op = "get_recent_media" => ret.raised = "no"


\* a pass that returned every entry: its updates are those before truncation
NothingCut == Returned /\ Len(ret.entries) = Len(RowsRead)

\* the returned entries whose probe reported file_exists with a time present
Probed == {j \in 1..Len(ret.entries) :
              ret.entries[j].file_exists /\ ret.entries[j].file_mtime # <<>>}

\* C15: before truncation there is an update for a record exactly when its
\* probe reported file_exists (a modification time present), with the epoch
\* seconds of that time, whatever the sort key and the record's position.
C15_UpdateIffProbed ==
    NothingCut =>
        /\ Len(ret.updates) = Cardinality(Probed)
        /\ \A j \in Probed :
              HasUpdate(epoch_seconds(ret.entries[j].file_mtime[1]),
                        ret.entries[j].item_id)
        /\ \A i \in 1..Len(ret.updates) :
              \E j \in Probed :
                  ret.updates[i] = <<epoch_seconds(ret.entries[j].file_mtime[1]),
                                     ret.entries[j].item_id>>

\* a pass sorted by a catalog time that returned an entry without a file
\* ahead of an entry with one, whose time is not a whole second
C15_Witness ==
    /\ NothingCut
    /\ call.sort_by = "updated_at"
    /\ Len(ret.entries) = MaxParts
    /\ ~ret.entries[1].file_exists
    /\ ret.entries[MaxParts].file_exists
    /\ ret.entries[MaxParts].file_mtime[1]
          # epoch_seconds(ret.entries[MaxParts].file_mtime[1]) * TicksPerSec
    /\ Len(ret.updates) = 1

\* the entries of a pass as they were handed to _sort_entries
Unsorted == all_entries(mapper.path_mappings, fs, RowsRead)

\* a pass sorted by one of the four time keys that returned every entry
SortedByTime ==
    /\ NothingCut
    /\ call.sort_by \in {"file_mtime", "added_at", "created_at", "updated_at"}

\* the value of an entry for the sort key of the call, <<>> when it has none
KeyValue(entry) ==
    IF call.sort_by = "file_mtime" THEN entry.file_mtime
    ELSE IF call.sort_by = "added_at" THEN entry.added_at
    ELSE IF call.sort_by = "created_at" THEN entry.created_at
    ELSE entry.updated_at

Occurrences(s, e) == Cardinality({i \in 1..Len(s) : s[i] = e})

\* C16: _sort_entries returns a permutation of its input: an entry with a
\* value for the key precedes every entry without one, and no entry precedes
\* one with a strictly later value.
C16_SortedDescending ==
    SortedByTime =>
        /\ Len(ret.entries) = Len(Unsorted)
        /\ \A i \in 1..Len(Unsorted) :
              Occurrences(ret.entries, Unsorted[i]) = Occurrences(Unsorted, Unsorted[i])
        /\ \A i, j \in 1..Len(ret.entries) :
              i < j =>
                  /\ KeyValue(ret.entries[i]) = <<>> => KeyValue(ret.entries[j]) = <<>>
                  /\ (KeyValue(ret.entries[i]) # <<>> /\ KeyValue(ret.entries[j]) # <<>>)
                        => KeyValue(ret.entries[i])[1] >= KeyValue(ret.entries[j])[1]

\* a sort that moved an entry with a value ahead of an entry without one
C16_Witness ==
    /\ SortedByTime
    /\ Len(Unsorted) > 1
    /\ KeyValue(Unsorted[1]) = <<>>
    /\ KeyValue(ret.entries[1]) # <<>>
    /\ ret.entries # Unsorted

\* an export that wrote its file
Exported == call.op = "export_full_media_data_to_csv" /\ ret.result

\* the modification time of the file a written row names as actual_file_path
ActualTime(row) == lookup(fs, Path(row.actual_file_path.s)).st_mtime

\* C17: in every exported row new_updated_at is the epoch seconds of the
\* probed modification time, equal to file_mtime_timestamp, when file_exists
\* is 'true', and the catalog updated_at unchanged when it is 'false'.
C17_NewUpdatedAt ==
    Exported =>
        \A i \in 1..Len(csv[1]) :
            /\ csv[1][i].file_exists \in {TrueCell, FalseCell}
            /\ csv[1][i].file_exists = TrueCell =>
                  /\ csv[1][i].new_updated_at = IntCell(epoch_seconds(ActualTime(csv[1][i])))
                  /\ csv[1][i].new_updated_at = csv[1][i].file_mtime_timestamp
            /\ csv[1][i].file_exists = FalseCell =>
                  /\ csv[1][i].new_updated_at = csv[1][i].updated_at
                  /\ csv[1][i].new_updated_at = write_int(db.items[csv[1][i].id.n].updated_at)

\* an export with a row of a file found, whose time is not a whole second
\* and differs from the catalog value, and a row of a file not found, with a
\* catalog value
C17_Witness ==
    /\ Exported
    /\ \E i, j \in 1..Len(csv[1]) :
        /\ csv[1][i].file_exists = TrueCell
        /\ csv[1][i].new_updated_at # csv[1][i].updated_at
        /\ ActualTime(csv[1][i]) # epoch_seconds(ActualTime(csv[1][i])) * TicksPerSec
        /\ csv[1][j].file_exists = FalseCell
        /\ csv[1][j].updated_at.kind = "int"

\* the entry get_recent_media makes of the record of the i-th exported row
EntryOfRow(i) == row_entry(mapper.path_mappings, fs, export_rows(db, call.limit)[i])

\* C24: the export row's path_was_mapped is 'true' exactly when the entry
\* get_recent_media makes of the record has path_mapped true; a record
\* whose file was not found never has the flag.
C24_RemappedFlagAgrees ==
    Exported =>
        \A i \in 1..Len(csv[1]) :
            /\ csv[1][i].path_was_mapped = TrueCell <=> EntryOfRow(i).path_mapped
            /\ csv[1][i].file_exists = FalseCell => csv[1][i].path_was_mapped = FalseCell

\* C25: every update get_recent_media returns has a returned entry with its
\* id, file_exists true and a file_mtime whose epoch seconds are its
\* timestamp, so that the valid_updates filter of main removes none.
C25_UpdatesMatchEntries ==
    Returned =>
        /\ \A i \in 1..Len(ret.updates) :
              \E j \in 1..Len(ret.entries) :
                  /\ ret.entries[j].item_id = ret.updates[i][2]
                  /\ ret.entries[j].file_exists
                  /\ ret.entries[j].file_mtime # <<>>
                  /\ epoch_seconds(ret.entries[j].file_mtime[1]) = ret.updates[i][1]
        /\ valid_updates(ret.entries, ret.updates) = ret.updates

\* the updates of a list that pass the validity filter when it is on
Filtered(pairs, fix_invalid_dates) ==
    {u \in pairs : fix_invalid_dates => fromtimestamp_error(u[2] * TicksPerSec) = "ok"
                                        /\ ~invalid_year(u[2] * TicksPerSec)}

\* get_recent_media on the same catalog and files with a limit that leaves
\* every entry in
Untruncated == get_recent_media(db, mapper.path_mappings, fs, Len(db.parts) + 1,
                                "updated_at")

\* C5: the (id, timestamp) updates create_db_from_csv reads from the file an
\* export without limit wrote are the updates get_recent_media returns
\* without truncation, the same validity filter applied to both.
C5_RoundTrip ==
    (/\ call.op = "create_db_from_csv"
     /\ call.limit = 0
     /\ Untruncated.raised = "no")
    => Filtered({<<u[1], u[2]>> : u \in {ret.updates[i] : i \in 1..Len(ret.updates)}},
                call.fix_invalid_dates)
         = Filtered({<<u[2], u[1]>> :
                        u \in {Untruncated.updates[i] : i \in 1..Len(Untruncated.updates)}},
                    call.fix_invalid_dates)

(***************************************************************************)
(* SpecWriter: the two operations that write a duplicate of the catalog,   *)
(* PlexDatabaseManager.update_database_copy and                            *)
(* CSVHandler.create_db_from_csv, on a catalog of two items.               *)
(***************************************************************************)
MaxUpdates == 2
MaxCsvRows == 2

WriterStore ==
    [items |-> [id \in ItemIds |->
                    [title |-> Title, added_at |-> <<Sec(2009, 0)>>,
                     created_at |-> <<Sec(2009, 0)>>,
                     updated_at |-> IF id = 1 THEN <<Sec(2009, 0)>> ELSE <<>>]],
     parts |-> <<>>]

\* timestamps in seconds: in the window, after it, before it, beyond year 9999
UpdateTimes == {Sec(2023, 0), Sec(2099, 0), Sec(1960, 0), Sec(10001, 0)}

\* the ids of the two items and an id the catalog does not have
UpdateIds == ItemIds \cup {3}

UpdateLists == Strs(UpdateTimes \X UpdateIds, MaxUpdates)

OutputPaths == {SrcPath, DstPath}

\* the ids whose UPDATE statement raises sqlite3.Error
FailingSets == {{}, {1}}

CsvRowChoices ==
    [id : {IntCell(1), IntCell(2), TextCell(<<"x">>)},
     file_exists : {TrueCell, FalseCell},
     new_updated_at : {Blank, TextCell(<<"x">>), IntCell(Sec(2023, 0)),
                       IntCell(Sec(2099, 0)), IntCell(Sec(10001, 0)),
                       IntCell(MaxTimeT + 1)}]

\* the files at csv_path: unreadable, or a header and up to MaxCsvRows rows
CsvFiles == {<<>>} \cup {<<rows>> : rows \in Strs(CsvRowChoices, MaxCsvRows)}

\* a database an earlier run left at the output path
StaleStore ==
    [items |-> [id \in ItemIds |->
                    [title |-> <<"S">>, added_at |-> <<Sec(2009, 1)>>,
                     created_at |-> <<Sec(2009, 1)>>,
                     updated_at |-> <<Sec(2009, 1)>>]],
     parts |-> <<>>]

\* no file at the output path, or the file of an earlier run
InitWriter ==
    /\ mapper = Mapper(<<UToH>>)
    /\ fs = <<>>
    /\ db = WriterStore
    /\ dup \in {<<>>, <<StaleStore>>}
    /\ csv = <<>>
    /\ call = [op |-> "none"]
    /\ ret = <<>>

UpdateDatabaseCopy ==
    /\ call.op = "none"
    /\ \E updates \in UpdateLists, output_path \in OutputPaths,
          fix_invalid_dates \in BOOLEAN, plex_sqlite \in PlexSqliteOutcomes,
          copy_ok \in BOOLEAN, failing \in FailingSets :
        LET r == update_database_copy(db, dup, updates, output_path, fix_invalid_dates,
                                      plex_sqlite, copy_ok, failing)
        IN  /\ copy_ok \/ (output_path = DstPath /\ plex_sqlite \in {"absent", "failed"})
            /\ call' = [op |-> "update_database_copy", updates |-> updates,
                        output_path |-> output_path,
                        fix_invalid_dates |-> fix_invalid_dates,
                        plex_sqlite |-> plex_sqlite, copy_ok |-> copy_ok,
                        failing |-> failing]
            /\ ret' = [result |-> r.result]
            /\ db' = r.db
            /\ dup' = r.dup
    /\ UNCHANGED <<mapper, fs, csv>>

CreateDbFromCsv ==
    /\ call.op = "none"
    /\ \E snapshot \in CsvFiles, output_path \in OutputPaths,
          fix_invalid_dates \in BOOLEAN, copy_ok \in BOOLEAN, failing \in FailingSets :
        LET r == create_db_from_csv(snapshot, db, dup, output_path, fix_invalid_dates,
                                    copy_ok, failing)
        IN  /\ copy_ok \/ output_path = DstPath
            /\ call' = [op |-> "create_db_from_csv", limit |-> 0,
                        output_path |-> output_path,
                        fix_invalid_dates |-> fix_invalid_dates,
                        copy_ok |-> copy_ok, failing |-> failing]
            /\ csv' = snapshot
            /\ ret' = [result |-> r.result, updates |-> r.updates]
            /\ db' = r.db
            /\ dup' = r.dup
    /\ UNCHANGED <<mapper, fs>>

NextWriter == UpdateDatabaseCopy \/ CreateDbFromCsv

SpecWriter == InitWriter /\ [][NextWriter]_vars

\* C1: no run of update_database_copy or create_db_from_csv changes the
\* source database, whatever the outcome and whatever output path is given,
\* the path of the source included.
C1_SourceNeverModified == [][db' = db]_vars

\* the validity window of a timestamp in seconds
in_window(timestamp) ==
    /\ fromtimestamp_error(timestamp * TicksPerSec) = "ok"
    /\ ~invalid_year(timestamp * TicksPerSec)

\* the rows that are to give an update
Qualifies(row, fix_invalid_dates) ==
    /\ row.file_exists = TrueCell
    /\ row.new_updated_at.kind = "int"
    /\ row.id.kind = "int"
    /\ fix_invalid_dates => in_window(row.new_updated_at.n)

Range(s) == {s[i] : i \in 1..Len(s)}

\* C10: the updates create_db_from_csv reads from the file are those of
\* exactly the rows with file_exists 'true', an integer new_updated_at and,
\* with fix_invalid_dates, a timestamp in the validity window.
C10_ExactlyQualifyingRows ==
    (/\ call.op = "create_db_from_csv"
     /\ call.output_path = DstPath
     /\ call.copy_ok
     /\ csv # <<>>)
    => Range(ret.updates)
         = {<<row.id.n, row.new_updated_at.n>> :
               row \in {r \in Range(csv[1]) : Qualifies(r, call.fix_invalid_dates)}}


\* a run of a writer with validation on that made its copy at the other
\* path, no UPDATE statement failing and every row of the snapshot well formed
ValidatedWrite ==
    /\ call.op \in {"update_database_copy", "create_db_from_csv"}
    /\ call.fix_invalid_dates
    /\ call.output_path = DstPath
    /\ call.copy_ok
    /\ call.failing = {}
    /\ call.op = "update_database_copy" => call.plex_sqlite # "unwritten"
    /\ call.op = "create_db_from_csv" =>
          /\ csv # <<>>
          /\ \A i \in 1..Len(csv[1]) :
                csv[1][i].id.kind = "int" /\ csv[1][i].new_updated_at.kind = "int"

\* the (timestamp, id) updates the run was given, in order
Requested ==
    IF call.op = "update_database_copy" THEN call.updates
    ELSE LET rows == SelectSeq(csv[1], LAMBDA row : row.file_exists = TrueCell)
         IN  [i \in 1..Len(rows) |-> <<rows[i].new_updated_at.n, rows[i].id.n>>]

\* the updated_at an item is to have in the duplicate: that of its last
\* update in the window, its previous value when there is none
ExpectedUpdatedAt(id) ==
    LET within == {i \in 1..Len(Requested) :
                      Requested[i][2] = id /\ in_window(Requested[i][1])}
    IN  IF within = {} THEN db.items[id].updated_at
        ELSE <<Requested[CHOOSE i \in within : \A j \in within : j <= i][1]>>

\* C12: with validation on, an update whose year is outside
\* [1970, current year + 1] is skipped, the item keeps its previous updated_at
\* in the duplicate, and the updates in the window are applied.
C12_OutOfWindowSkipped ==
    ValidatedWrite =>
        /\ dup # <<>>
        /\ \A id \in ItemIds : dup[1].items[id].updated_at = ExpectedUpdatedAt(id)

\* a run of update_database_copy that made its copy at the other path
CopiedAndUpdated ==
    /\ call.op = "update_database_copy"
    /\ call.output_path = DstPath
    /\ call.copy_ok
    /\ call.plex_sqlite # "unwritten"

\* the updates of the list whose processing has no failure: the UPDATE does
\* not raise and, with validation on, the timestamp is in the window
Processable(id) ==
    {i \in 1..Len(call.updates) :
        /\ call.updates[i][2] = id
        /\ id \notin call.failing
        /\ call.fix_invalid_dates => in_window(call.updates[i][1])}

\* C13: in update_database_copy a failure on one update never aborts the
\* batch: every other update is attempted and is in the duplicate after the
\* commit.
C13_FailureNeverAborts ==
    CopiedAndUpdated =>
        /\ dup # <<>>
        /\ \A id \in ItemIds :
              Processable(id) # {} =>
                  dup[1].items[id].updated_at =
                      <<call.updates[CHOOSE i \in Processable(id) :
                                        \A j \in Processable(id) : j <= i][1]>>

\* the store a writer ran its UPDATE statements on
Target == IF call.output_path = SrcPath THEN db ELSE dup[1]

\* the (timestamp, id) updates a writer went through
Attempted ==
    IF call.op = "update_database_copy" THEN call.updates
    ELSE [i \in 1..Len(ret.updates) |-> <<ret.updates[i][2], ret.updates[i][1]>>]

\* C14: update_database_copy and create_db_from_csv return success only if
\* an update was applied to a record of the duplicate.
C14_SuccessNeedsAppliedUpdate ==
    (call.op \in {"update_database_copy", "create_db_from_csv"} /\ ret.result) =>
        \E i \in 1..Len(Attempted) :
            /\ Attempted[i][2] \in DOMAIN Target.items
            /\ Target.items[Attempted[i][2]].updated_at = <<Attempted[i][1]>>

\* the updates a validating writer kept: those create_db_from_csv read from
\* the file, those update_database_copy did not skip
KeptUpdates ==
    IF call.op = "create_db_from_csv" THEN ret.updates
    ELSE LET kept == SelectSeq(call.updates,
                               LAMBDA u : ~update_skipped(u[1], call.fix_invalid_dates))
         IN  [i \in 1..Len(kept) |-> <<kept[i][2], kept[i][1]>>]

\* a validating writer that went through all its updates
Validated ==
    /\ call.op \in {"update_database_copy", "create_db_from_csv"}
    /\ call.fix_invalid_dates
    /\ call.op = "update_database_copy" =>
          \A i \in 1..Len(call.updates) :
              fromtimestamp_error(call.updates[i][1] * TicksPerSec) = "ok"

\* the rows of a file that holds the updates kept
AsRows(updates) ==
    [i \in 1..Len(updates) |->
        [id |-> IntCell(updates[i][1]), file_exists |-> TrueCell,
         new_updated_at |-> IntCell(updates[i][2])]]

\* C19: the validity filter is idempotent: the updates a validating pass
\* kept are all kept when either writer validates them again.
C19_FilterIdempotent ==
    Validated =>
        /\ \A i \in 1..Len(KeptUpdates) :
              /\ fromtimestamp_error(KeptUpdates[i][2] * TicksPerSec) = "ok"
              /\ ~update_skipped(KeptUpdates[i][2], TRUE)
              /\ ~row_skipped(AsRows(KeptUpdates)[i], TRUE)
              /\ row_error(AsRows(KeptUpdates)[i], TRUE) = "ok"
        /\ \A i \in 1..Len(KeptUpdates) :
              \E j \in 1..Len(read_updates(AsRows(KeptUpdates), TRUE, <<>>).updates) :
                  read_updates(AsRows(KeptUpdates), TRUE, <<>>).updates[j] = KeptUpdates[i]

\* an import with validation that kept one row and skipped another
C19_Witness ==
    /\ Validated
    /\ call.op = "create_db_from_csv"
    /\ csv # <<>>
    /\ Len(csv[1]) = MaxCsvRows
    /\ \A i \in 1..Len(csv[1]) : row_selected(csv[1][i])
    /\ \E i \in 1..Len(csv[1]) :
          /\ csv[1][i].new_updated_at.kind = "int"
          /\ fromtimestamp_error(csv[1][i].new_updated_at.n * TicksPerSec) = "ok"
          /\ invalid_year(csv[1][i].new_updated_at.n * TicksPerSec)
    /\ Len(ret.updates) = 1
    /\ ret.result

\* an import that made its copy at the other path, no UPDATE failing
Imported ==
    /\ call.op = "create_db_from_csv"
    /\ call.output_path = DstPath
    /\ call.copy_ok
    /\ call.failing = {}
    /\ csv # <<>>

\* the qualifying rows of the snapshot for an item
QualifyingRows(id) ==
    {i \in 1..Len(csv[1]) :
        /\ Qualifies(csv[1][i], call.fix_invalid_dates)
        /\ csv[1][i].id.n = id}

\* C23: in create_db_from_csv a row failing a per-row check is skipped and
\* does not abort the import: every qualifying row is still turned into an
\* update and applied (the last one of an item standing).
C23_BadRowNeverAborts ==
    Imported =>
        \A id \in ItemIds :
            QualifyingRows(id) # {} =>
                /\ dup # <<>>
                /\ dup[1].items[id].updated_at =
                      <<csv[1][CHOOSE i \in QualifyingRows(id) :
                                  \A j \in QualifyingRows(id) : j <= i].new_updated_at.n>>

\* a writer that returned success
Succeeded ==
    /\ call.op \in {"update_database_copy", "create_db_from_csv"}
    /\ ret.result

\* the timestamps of the updates applied to an item: those gone through
\* that were not skipped and whose UPDATE did not fail
AppliedTimes(id) ==
    {Attempted[i][1] : i \in {j \in 1..Len(Attempted) :
        /\ Attempted[j][2] = id
        /\ id \notin call.failing
        /\ call.fix_invalid_dates => in_window(Attempted[j][1])}}

\* after differs from before in nothing but the updated_at of the items
\* with an applied update, which holds a timestamp given for the item
OnlyUpdatedAt(before, after, id, times) ==
    /\ after.items[id].title = before.items[id].title
    /\ after.items[id].added_at = before.items[id].added_at
    /\ after.items[id].created_at = before.items[id].created_at
    /\ IF times = {} THEN after.items[id].updated_at = before.items[id].updated_at
       ELSE \E t \in times : after.items[id].updated_at = <<t>>

\* C26: after a successful update_database_copy or create_db_from_csv the
\* duplicate differs from the source only in the updated_at of the items in
\* the applied update list, each holding a timestamp given for its id.
C26_OnlyUpdatedAtChanges ==
    [][Succeeded' =>
          /\ Target'.parts = db.parts
          /\ DOMAIN Target'.items = DOMAIN db.items
          /\ \A id \in DOMAIN db.items :
                OnlyUpdatedAt(db, Target', id, AppliedTimes(id)')]_vars

(***************************************************************************)
(* SpecMain: one run of main, in every operating mode, on a catalog of two *)
(* items with one file part.                                               *)
(***************************************************************************)
\* the options that choose the mode: at most two of them given, and
\* --use-plex-sqlite only with --write
ModeFlags ==
    {f \in [analyze_csv : BOOLEAN, import_csv : BOOLEAN, export_csv : BOOLEAN,
            analyze : BOOLEAN, write : BOOLEAN, use_plex_sqlite : BOOLEAN] :
        /\ f.use_plex_sqlite => f.write
        /\ Cardinality({o \in {"analyze_csv", "import_csv", "export_csv",
                                "analyze", "write", "use_plex_sqlite"} : f[o]}) <= 2}

\* --db, --output, --keep-invalid-dates, --limit, --sort-by; --output '' is
\* tried with --import-csv only
MainArgs ==
    {[analyze_csv |-> x[1].analyze_csv, import_csv |-> x[1].import_csv,
      export_csv |-> x[1].export_csv, analyze |-> x[1].analyze,
      write |-> x[1].write, use_plex_sqlite |-> x[1].use_plex_sqlite,
      db |-> x[2].db, output |-> x[2].output,
      fix_invalid_dates |-> x[2].fix_invalid_dates, limit |-> x[2].limit,
      sort_by |-> "file_mtime"] :
        x \in {y \in ModeFlags \X [db : {SrcPath, MissingPath},
                                   output : {DstPath, SrcPath, EmptyPath},
                                   fix_invalid_dates : BOOLEAN,
                                   limit : {0, MaxLimit}] :
                  y[2].output = EmptyPath => (y[1].import_csv /\ ~y[1].analyze_csv)}}

\* path_mappings.conf with the rule of UToH
MainConfig == << << UToH[1] \o <<",">> \o UToH[2] >> >>

\* what surrounds the run: all well, or one thing not
GoodEnv ==
    [config |-> MainConfig, plex_sqlite |-> "absent", copy_ok |-> TRUE,
     failing |-> {}, writable |-> TRUE]

MainEnvs ==
    {GoodEnv, [GoodEnv EXCEPT !.config = <<>>], [GoodEnv EXCEPT !.copy_ok = FALSE],
     [GoodEnv EXCEPT !.plex_sqlite = "written"], [GoodEnv EXCEPT !.plex_sqlite = "failed"],
     [GoodEnv EXCEPT !.failing = {1}], [GoodEnv EXCEPT !.writable = FALSE]}

\* item 1 has the part /u/a; its updated_at can or cannot be made a date
MainStores ==
    {[items |-> [id \in ItemIds |-> item], parts |-> <<[item |-> 1, file |-> UPath]>>] :
        item \in {c \in ItemChoices : c.title = Title /\ c.updated_at # <<>>}}

\* the file is found under its mapped path, or not at all
MainFiles == {f \in [FsPaths -> ReconStatuses] : f[UPath] = NoFile}

MainRows ==
    {r \in CsvRowChoices :
        /\ r.id = IntCell(1)
        /\ r.new_updated_at \in {IntCell(Sec(2023, 0)), IntCell(Sec(2099, 0))}}

MainCsvFiles == {<<>>} \cup {<<rows>> : rows \in Strs(MainRows, MaxCsvRows)}

InitMain ==
    /\ mapper = NoMapper
    /\ dup = <<>>
    /\ call = [op |-> "none"]
    /\ ret = <<>>
    /\ \/ db \in MainStores /\ fs \in MainFiles /\ csv = <<>>
       \/ /\ db = WriterStore
          /\ fs = [path \in FsPaths |-> NoFile]
          /\ csv \in MainCsvFiles

Main ==
    /\ call.op = "none"
    /\ \E args \in MainArgs, env \in MainEnvs :
       \E path_mapper \in {__init__(FALSE, <<>>, env.config)} :
       \E r \in {main(args, env, path_mapper, db, fs, dup, csv)} :
            /\ call' = [op |-> "main", args |-> args, env |-> env]
            /\ ret' = [code |-> r.code, raised |-> r.raised,
                       reported |-> r.reported, executed |-> r.executed]
            /\ db' = r.db
            /\ dup' = r.dup
            /\ csv' = r.csv
    /\ UNCHANGED <<mapper, fs>>

NextMain == Main

SpecMain == InitMain /\ [][NextMain]_vars


\* a run of main that imports the snapshot
Imports == call.op = "main" /\ call.args.import_csv /\ ~call.args.analyze_csv

\* every row of the snapshot has file_exists false or a timestamp that fails
\* the validity check that is on
NoUpdateRows ==
    /\ csv # <<>>
    /\ \A i \in 1..Len(csv[1]) :
          \/ csv[1][i].file_exists = FalseCell
          \/ /\ call.args.fix_invalid_dates
             /\ csv[1][i].new_updated_at.kind = "int"
             /\ ~in_window(csv[1][i].new_updated_at.n)

\* C11: an import whose snapshot yields no update is reported as a failure:
\* no UPDATE is executed, the duplicate, if made, is the plain copy of the
\* source, and main exits with code 1.
C11_ZeroUpdatesImportFails ==
    (Imports /\ NoUpdateRows) =>
        /\ ret.code = 1
        /\ ret.reported
        /\ ret.executed = 0
        /\ dup \in {<<>>, <<db>>}

\* an import with validation on, of a snapshot with a row of a missing file
\* and a row whose timestamp is outside the window, that copied the source
C11_Witness ==
    /\ Imports
    /\ NoUpdateRows
    /\ call.args.fix_invalid_dates
    /\ dup = <<db>>
    /\ \E i, j \in 1..Len(csv[1]) :
          /\ csv[1][i].file_exists = FalseCell
          /\ csv[1][j].file_exists = TrueCell

\* C18: every mode of main returns 1 whenever a failure was reported (an
\* error logged, or the operation of the mode returned failure), and 0 or 1
\* in every case.
C18_ReportedFailureExitsOne ==
    call.op = "main" =>
        /\ ret.code \in {0, 1}
        /\ ret.reported => ret.code = 1

====
